---------------------------- MODULE Spec2Model ----------------------------
(***************************************************************************)
(* Progress and scheduling engine of the vocabulary trainer (the           *)
(* useVocabulary hook): the per-word progress records, the study plan,     *)
(* the per-day counters and the operations that change them.               *)
(*                                                                         *)
(* Spec and SpecPlan are one authenticated session whose slice has been    *)
(* loaded from persistence (user # null, isLoaded = true): Spec is the     *)
(* progress engine under a fixed plan, SpecPlan is plan management.        *)
(* SpecTask is the daily task under answers on any word, SpecStats the     *)
(* plan statistics under any settings, SpecSession the hook under logins   *)
(* and logouts, with localStorage and the isLoaded flag that guards the    *)
(* save effects.  SpecSync is the ranking service under sync requests of   *)
(* any writers, SpecBoard the leaderboard page loading from the service,   *)
(* SpecRank that page while other devices of the user sync their scores.   *)
(* Timestamps are milliseconds, as in the source; the calendar is taken in *)
(* UTC.                                                                    *)
(***************************************************************************)
EXTENDS Integers, Sequences, FiniteSets, TLC

(***************************************************************************)
(* Bounds of the model.                                                    *)
(***************************************************************************)
\* The clock is advanced at most MaxTicks times, ClockStep each time.
MaxTicks == 1
\* The records of a plan collect at most MaxErrors errors in total.
MaxErrors == 2
\* nanoid() draws a plan id from 1..NumPlanIds, never the current one.
NumPlanIds == 2
\* A know answer is given on a word only while every other word is at stage
\* MaxSideStage or below: one word at a time climbs the stages.
MaxSideStage == 1
\* Sync requests of other writers carry a score in 0..MaxScore.
MaxScore == 2
\* The leaderboard page makes at most MaxLoads loadData calls.
MaxLoads == 2

(***************************************************************************)
(* Time.                                                                   *)
(***************************************************************************)
MsPerMinute == 60 * 1000
MsPerDay == 24 * 60 * MsPerMinute

\* The session starts at noon of day 1 and every tick adds twelve hours: the
\* first tick reaches the next day, the second one stays within that day.
ClockStart == MsPerDay + 12 * 60 * MsPerMinute
ClockStep == 12 * 60 * MsPerMinute
ClockEnd == ClockStart + MaxTicks * ClockStep

\* new Date(t).toDateString(): the calendar day of t.
DateString(t) == t \div MsPerDay

\* new Date(t).setHours(0,0,0,0): the first millisecond of the day of t.
StartOfDay(t) == (t \div MsPerDay) * MsPerDay

\* Ebbinghaus intervals in minutes, indexed by stage 0..8.
INTERVALS == <<5, 30, 12 * 60, 24 * 60, 2 * 24 * 60, 4 * 24 * 60,
               7 * 24 * 60, 14 * 24 * 60, 21 * 24 * 60>>

\* INTERVALS[stage] of the source (TLA+ sequences start at 1).
Interval(stage) == INTERVALS[stage + 1]

\* INTERVALS.length - 1
LastStage == Len(INTERVALS) - 1

Min(a, b) == IF a < b THEN a ELSE b
Max(a, b) == IF a > b THEN a ELSE b

(***************************************************************************)
(* The catalog: books and their words.                                     *)
(***************************************************************************)
Books == {"b1", "b2"}

\* allWords: every word of every book, tagged with its book.
allWords == <<[word |-> "banana", bookId |-> "b1"],
              [word |-> "apple", bookId |-> "b2"]>>

WordKeys == {allWords[i].word : i \in 1..Len(allWords)}

(***************************************************************************)
(* State.                                                                  *)
(***************************************************************************)
VARIABLES
    now,          \* the logical clock (useTime)
    plan,         \* PlanSettings, or NoPlan
    progress,     \* ProgressMap: word key -> UserProgress, partial
    planState,    \* PlanState: todayDate, todayLearnedCount, todayMistakes
    testHistory,  \* TestRecord list
    user,         \* the authenticated user (useAuth), or NoUser
    usersTable,   \* the ranking service's users table: id -> row
    applied,      \* the sync requests the service has applied: {id, score}
    loads,        \* the loadData calls of the leaderboard page
    board,        \* the page's state: leaderboard, loading, isOffline
    storage,      \* localStorage: the items kept under each user id's keys
    isLoaded      \* the hook's isLoaded flag

\* The variables of the vocabulary hook, and those of the score sync.
hookVars == <<now, plan, progress, planState, testHistory>>
syncVars == <<user, usersTable, applied, loads, board>>
storeVars == <<storage, isLoaded>>

vars == <<now, plan, progress, planState, testHistory,
          user, usersTable, applied, loads, board, storage, isLoaded>>

\* plan === null
NoPlan == [null |-> TRUE]

\* The record the mutators start from when the word has none.
DefaultProgress ==
    [status |-> "new", stage |-> 0, nextReview |-> 0, lastReview |-> 0,
     firstLearnedAt |-> 0, errorCount |-> 0]

\* { todayDate: new Date(t).toDateString(), todayLearnedCount: 0, todayMistakes: [] }
FreshPlanState(t) ==
    [todayDate |-> DateString(t), todayLearnedCount |-> 0, todayMistakes |-> <<>>]

\* arr.includes(x)
Includes(arr, x) == \E i \in 1..Len(arr) : arr[i] = x

\* prev[word] || fallback
RecordOr(prev, word, fallback) ==
    IF word \in DOMAIN prev THEN prev[word] ELSE fallback

\* Faulty variant of IsUnlearned: a word is unlearned until it is mastered.
IsUnlearnedUntilMastered(word) ==
    word \notin DOMAIN progress \/ progress[word].status # "mastered"

\* !progress[word] || progress[word].status === 'new'
IsUnlearned(word) ==
    word \notin DOMAIN progress \/ progress[word].status = "new"

\* { ...prev, [word]: newState }
Put(prev, word, newState) ==
    [w \in DOMAIN prev \cup {word} |-> IF w = word THEN newState ELSE prev[w]]

\* Faulty variant of Spread: the keys of both, a's values winning.
SpreadFirstWins(a, b) ==
    [k \in DOMAIN a \cup DOMAIN b |-> IF k \in DOMAIN a THEN a[k] ELSE b[k]]

\* { ...a, ...b }: the keys of both, b's values winning.
Spread(a, b) ==
    [k \in DOMAIN a \cup DOMAIN b |-> IF k \in DOMAIN b THEN b[k] ELSE a[k]]


\* progress = {}
EmptyProgress == [w \in {} |-> DefaultProgress]

(***************************************************************************)
(* Persistence.  localStorage keeps, for a user id, the items under the    *)
(* keys kids_vocab_plan_v5_<id>, kids_vocab_plan_v5_<id>_state,            *)
(* kids_vocab_progress_v5_<id> and kids_vocab_test_history_v5_<id>.  An    *)
(* item is the set of the value stored: empty when getItem returns null.   *)
(* The values hold strings, finite numbers, arrays and objects without     *)
(* undefined members, which JSON.parse(JSON.stringify(v)) gives back as    *)
(* they are, so an item is kept as the value its text denotes.             *)
(***************************************************************************)
\* user === null
NoUser == [null |-> TRUE]

\* The ids localStorage has keys for: the session's user and the local admin.
StoreIds == {"u1", "admin_zhx"}

\* No item under any key of the id.
EmptySlice == [plan |-> {}, state |-> {}, progress |-> {}, history |-> {}]

EmptyStorage == [i \in StoreIds |-> EmptySlice]

\* The four save effects, run on the values of one render: the plan and
\* the day state are written when there is a user, a plan and isLoaded,
\* progress and test history when there is a user and isLoaded.
SaveEffects(st, u, pl, ps, pg, th, loaded) ==
    IF u = NoUser \/ ~loaded THEN st
    ELSE [st EXCEPT ![u.id] =
            [plan |-> IF pl # NoPlan THEN {pl} ELSE st[u.id].plan,
             state |-> IF pl # NoPlan THEN {ps} ELSE st[u.id].state,
             progress |-> {pg},
             history |-> {th}]]

(***************************************************************************)
(* Inputs.                                                                 *)
(***************************************************************************)
Results == {"know", "dont-know"}
ReviewModes == {"today", "scientific"}
DailyLimits == {1, 2}
PlanIds == 1..NumPlanIds

\* The book selections savePlan is called with: one book, the other, both.
BookChoices == SUBSET Books \ {{}}

\* The settings savePlan is called with (PlanSettings without id and
\* createdAt): count mode, where daysTarget is absent, with every selection
\* and daily limit, and days mode over the first book or both.
SettingsChoices ==
    {[selectedBooks |-> b, planMode |-> "count", dailyLimit |-> d,
      learnOrder |-> "alphabetical"] : b \in BookChoices, d \in DailyLimits}
    \cup
    {[selectedBooks |-> b, planMode |-> "days", dailyLimit |-> 1,
      daysTarget |-> 2, learnOrder |-> "random"] : b \in {{"b1"}, Books}}

\* The settings SpecStats calls savePlan with: any selection of books, the
\* empty one included; count mode with a daily limit of 0, 1 or 2, or days
\* mode with a target of 2 days.
StatsSettings ==
    {[selectedBooks |-> b, planMode |-> "count", dailyLimit |-> d,
      learnOrder |-> "alphabetical"] : b \in SUBSET Books, d \in {0} \cup DailyLimits}
    \cup
    {[selectedBooks |-> b, planMode |-> "days", dailyLimit |-> 1,
      daysTarget |-> 2, learnOrder |-> "alphabetical"] : b \in SUBSET Books}

\* What persistence holds for the user when the session starts: nothing, or
\* a plan over both books with one test record and no progress yet.
SavedTest ==
    [id |-> "t1", timestamp |-> ClockStart, scope |-> "all", count |-> 1,
     score |-> 0, mistakes |-> <<"apple">>]

SavedPlan ==
    [id |-> 1, createdAt |-> ClockStart, selectedBooks |-> Books,
     planMode |-> "count", dailyLimit |-> 2, learnOrder |-> "alphabetical"]

SavedSlices ==
    {[plan |-> NoPlan, testHistory |-> <<>>],
     [plan |-> SavedPlan, testHistory |-> <<SavedTest>>]}

(***************************************************************************)
(* The state updaters, as the source computes them.                        *)
(***************************************************************************)
\* recordMistake's updater: append the word unless it is already listed.
recordMistake(ps, word) ==
    [ps EXCEPT !.todayMistakes =
        IF Includes(ps.todayMistakes, word) THEN @ ELSE Append(@, word)]

\* Faulty variant of DayRollover: the new day keeps the count of the old.
DayRolloverKeepsCount(pl, ps, t) ==
    IF pl # NoPlan /\ ps.todayDate # DateString(t)
    THEN [FreshPlanState(t) EXCEPT !.todayLearnedCount = ps.todayLearnedCount]
    ELSE ps

\* Faulty variant of DayRollover: the new day keeps the mistakes of the old.
DayRolloverKeepsMistakes(pl, ps, t) ==
    IF pl # NoPlan /\ ps.todayDate # DateString(t)
    THEN [FreshPlanState(t) EXCEPT !.todayMistakes = ps.todayMistakes]
    ELSE ps

\* The day-rollover effect: with a plan, a day state of another day is
\* replaced by a fresh one.
DayRollover(pl, ps, t) ==
    IF pl # NoPlan /\ ps.todayDate # DateString(t) THEN FreshPlanState(t) ELSE ps

\* Faulty variant of LearnUpdate: a dont-know answer sends the record back to
\* status learning.
LearnUpdateDemotes(current, result, t) ==
    LET first == IF current.status = "new"
                 THEN [current EXCEPT !.status = "learning", !.firstLearnedAt = t]
                 ELSE current
        touched == [first EXCEPT !.lastReview = t]
        stage == Min(touched.stage + 1, LastStage)
    IN  IF result = "dont-know"
        THEN [touched EXCEPT !.errorCount = @ + 1,
                             !.stage = 0,
                             !.status = "learning",
                             !.nextReview = t + 5 * MsPerMinute]
        ELSE [touched EXCEPT !.stage = stage,
                             !.nextReview = t + Interval(stage) * MsPerMinute,
                             !.status = IF stage >= 5 THEN "mastered" ELSE @]

\* Faulty variant of LearnUpdate: a dont-know answer lowers the stage by one
\* instead of resetting it.
LearnUpdateKeepsStage(current, result, t) ==
    LET first == IF current.status = "new"
                 THEN [current EXCEPT !.status = "learning", !.firstLearnedAt = t]
                 ELSE current
        touched == [first EXCEPT !.lastReview = t]
        stage == Min(touched.stage + 1, LastStage)
    IN  IF result = "dont-know"
        THEN [touched EXCEPT !.errorCount = @ + 1,
                             !.stage = Max(0, @ - 1),
                             !.nextReview = t + 5 * MsPerMinute]
        ELSE [touched EXCEPT !.stage = stage,
                             !.nextReview = t + Interval(stage) * MsPerMinute,
                             !.status = IF stage >= 5 THEN "mastered" ELSE @]

\* recordLearnResult: the record written for the word.
LearnUpdate(current, result, t) ==
    LET first == IF current.status = "new"
                 THEN [current EXCEPT !.status = "learning", !.firstLearnedAt = t]
                 ELSE current
        touched == [first EXCEPT !.lastReview = t]
        stage == Min(touched.stage + 1, LastStage)
    IN  IF result = "dont-know"
        THEN [touched EXCEPT !.errorCount = @ + 1,
                             !.stage = 0,
                             !.nextReview = t + 5 * MsPerMinute]
        ELSE [touched EXCEPT !.stage = stage,
                             !.nextReview = t + Interval(stage) * MsPerMinute,
                             !.status = IF stage >= 5 THEN "mastered" ELSE @]

\* Faulty variant of LearnPlanState: every learn call is counted.
LearnPlanStateAlwaysCounts(ps, current, word, result) ==
    LET counted == [ps EXCEPT !.todayLearnedCount = @ + 1]
    IN  IF result = "dont-know" THEN recordMistake(counted, word) ELSE counted

\* recordLearnResult: the day state after the call.
LearnPlanState(ps, current, word, result) ==
    LET counted == IF current.status = "new"
                   THEN [ps EXCEPT !.todayLearnedCount = @ + 1]
                   ELSE ps
    IN  IF result = "dont-know" THEN recordMistake(counted, word) ELSE counted

\* Faulty variant of ReviewUpdate: the next review is scheduled by the
\* interval of the stage the record had.
ReviewUpdateOldInterval(current, result, t) ==
    LET touched == [current EXCEPT !.lastReview = t]
        stage == Min(touched.stage + 1, LastStage)
    IN  IF result = "dont-know"
        THEN [touched EXCEPT !.errorCount = @ + 1,
                             !.stage = 0,
                             !.nextReview = t + 5 * MsPerMinute]
        ELSE [touched EXCEPT !.stage = stage,
                             !.nextReview = t + Interval(current.stage) * MsPerMinute]

\* Faulty variant of ReviewUpdate: a know answer advances the stage and
\* leaves the next review where it was.
ReviewUpdateKeepsSchedule(current, result, t) ==
    LET touched == [current EXCEPT !.lastReview = t]
        stage == Min(touched.stage + 1, LastStage)
    IN  IF result = "dont-know"
        THEN [touched EXCEPT !.errorCount = @ + 1,
                             !.stage = 0,
                             !.nextReview = t + 5 * MsPerMinute]
        ELSE [touched EXCEPT !.stage = stage]

\* recordReviewResult: the record written for a word that has one.
ReviewUpdate(current, result, t) ==
    LET touched == [current EXCEPT !.lastReview = t]
        stage == Min(touched.stage + 1, LastStage)
    IN  IF result = "dont-know"
        THEN [touched EXCEPT !.errorCount = @ + 1,
                             !.stage = 0,
                             !.nextReview = t + 5 * MsPerMinute]
        ELSE [touched EXCEPT !.stage = stage,
                             !.nextReview = t + Interval(stage) * MsPerMinute]

\* Faulty variant of TestUpdate: the stage is lowered without the floor at 0.
TestUpdateNoFloor(current, t) ==
    [current EXCEPT !.errorCount = @ + 1,
                    !.stage = @ - 1,
                    !.lastReview = t]

\* Faulty variant of TestUpdate: a wrong test answer is treated like a wrong
\* review answer (stage 0, review in 5 minutes).
TestUpdateResets(current, t) ==
    [current EXCEPT !.errorCount = @ + 1,
                    !.stage = 0,
                    !.nextReview = t + 5 * MsPerMinute,
                    !.lastReview = t]

\* recordTestResult, wrong answer: the record written for the word.
TestUpdate(current, t) ==
    [current EXCEPT !.errorCount = @ + 1,
                    !.stage = Max(0, @ - 1),
                    !.lastReview = t]

\* Faulty variant of IsReset: the book sets are compared by size.
IsResetOnShrink(pl, settings) ==
    IF pl # NoPlan
    THEN Cardinality(settings.selectedBooks) < Cardinality(pl.selectedBooks)
    ELSE TRUE

\* savePlan: is the call a reset?  Some book of the old set is missing from
\* the new one, or there is no plan yet.
IsReset(pl, settings) ==
    IF pl # NoPlan
    THEN \E book \in pl.selectedBooks : book \notin settings.selectedBooks
    ELSE TRUE

(***************************************************************************)
(* The task scheduler: read-only queries on the state.                     *)
(***************************************************************************)
\* The word keys in the order of String.prototype.localeCompare.
Collation == <<"apple", "banana">>

\* a.localeCompare(b): negative, zero or positive.
localeCompare(a, b) ==
    LET Index(word) == CHOOSE i \in 1..Len(Collation) : Collation[i] = word
    IN  Index(a) - Index(b)

\* arr.filter(Keep) is SelectSeq(arr, Keep); arr.slice(0, n):
Slice(arr, n) == SubSeq(arr, 1, Min(n, Len(arr)))

\* The set of the elements of arr.
Elements(arr) == {arr[i] : i \in 1..Len(arr)}

\* arr.sort(compare), compare given as the function of pairs cmp: the
\* sort is stable, an element goes behind those that do not compare
\* greater.
RECURSIVE Sort(_, _)
Sort(arr, cmp) ==
    IF arr = <<>> THEN <<>>
    ELSE LET sorted == Sort(SubSeq(arr, 1, Len(arr) - 1), cmp)
             x == arr[Len(arr)]
             k == Cardinality({j \in 1..Len(sorted) : cmp[<<sorted[j], x>>] <= 0})
         IN  SubSeq(sorted, 1, k) \o <<x>> \o SubSeq(sorted, k + 1, Len(sorted))

\* arr.sort(() => Math.random() - 0.5): any order of the elements.
Shuffles(arr) ==
    LET n == Len(arr)
        Orders == {o \in [1..n -> 1..n] : \A i, j \in 1..n : i # j => o[i] # o[j]}
    IN  {[i \in 1..n |-> arr[o[i]]] : o \in Orders}

\* (a, b) => a.word.localeCompare(b.word)
ByWord(arr) ==
    [p \in Elements(arr) \X Elements(arr) |-> localeCompare(p[1].word, p[2].word)]

\* Faulty variant of planWords: the whole catalog.
planWordsUnfiltered == IF plan = NoPlan THEN <<>> ELSE allWords

\* planWords: the words of the plan's books, in catalog order.
planWords ==
    IF plan = NoPlan THEN <<>>
    ELSE SelectSeq(allWords, LAMBDA w : w.bookId \in plan.selectedBooks)

\* The words of the pool without record or with status new, in the orders
\* the plan's learnOrder can give them.
unlearned ==
    LET fresh == SelectSeq(planWords, LAMBDA w : IsUnlearned(w.word))
    IN  IF plan.learnOrder = "random" THEN Shuffles(fresh)
        ELSE {Sort(fresh, ByWord(fresh))}

\* Faulty variant of getTodayTask: the quota is the daily limit, whatever
\* has been learned today.
getTodayTaskFullLimit ==
    IF plan = NoPlan THEN {<<>>}
    ELSE {Slice(u, Max(0, plan.dailyLimit)) : u \in unlearned}

\* Faulty variant of getTodayTask: the words are taken in catalog order.
getTodayTaskUnsorted ==
    IF plan = NoPlan THEN {<<>>}
    ELSE LET fresh == SelectSeq(planWords, LAMBDA w : IsUnlearned(w.word))
             remainingQuota == Max(0, plan.dailyLimit - planState.todayLearnedCount)
         IN  {Slice(fresh, remainingQuota)}

\* getTodayTask(): the lists the call can return (one, unless the order is
\* random).
getTodayTask ==
    IF plan = NoPlan THEN {<<>>}
    ELSE LET remainingQuota == Max(0, plan.dailyLimit - planState.todayLearnedCount)
         IN  {Slice(u, remainingQuota) : u \in unlearned}

\* stats === null
NoStats == [null |-> TRUE]

\* Math.ceil(a / b) for a >= 0 and b > 0.
Ceil(a, b) == (a + b - 1) \div b

\* x || 1 for a number x.
OrOne(x) == IF x = 0 THEN 1 ELSE x

\* Faulty variant of StatsDaysTarget: the plan's mode is not looked at.
StatsDaysTargetIgnoresMode(totalWords) ==
    OrOne(Ceil(totalWords, OrOne(plan.dailyLimit)))

\* The daysTarget that stats returns: plan.daysTarget in days mode, else
\* Math.ceil(totalWords / (plan.dailyLimit || 1)); then daysTarget || 1,
\* which is 1 when plan.daysTarget is undefined.
StatsDaysTarget(totalWords) ==
    IF plan.planMode = "days"
    THEN IF "daysTarget" \in DOMAIN plan THEN OrOne(plan.daysTarget) ELSE 1
    ELSE OrOne(Ceil(totalWords, OrOne(plan.dailyLimit)))

\* Faulty variant of stats: learnedUnique counts the records of all words.
statsCountsAllRecords ==
    IF plan = NoPlan THEN NoStats
    ELSE LET learnedUnique ==
                 Cardinality({w \in DOMAIN progress : progress[w].status # "new"})
             totalWords == Len(planWords)
             remaining == totalWords - learnedUnique
             startDate == StartOfDay(plan.createdAt)
             currentDate == StartOfDay(now)
         IN  [totalWords |-> totalWords,
              learnedUnique |-> learnedUnique,
              remaining |-> remaining,
              dailyGoal |-> plan.dailyLimit,
              todayLearned |-> planState.todayLearnedCount,
              isFinished |-> remaining = 0,
              daysSinceStart |-> Max(1, ((currentDate - startDate) \div MsPerDay) + 1),
              daysTarget |-> StatsDaysTarget(totalWords),
              createdAt |-> plan.createdAt]

\* stats: null without a plan.
stats ==
    IF plan = NoPlan THEN NoStats
    ELSE LET learnedUnique ==
                 Len(SelectSeq(planWords,
                       LAMBDA w : /\ w.word \in DOMAIN progress
                                  /\ progress[w.word].status # "new"))
             totalWords == Len(planWords)
             remaining == totalWords - learnedUnique
             startDate == StartOfDay(plan.createdAt)
             currentDate == StartOfDay(now)
         IN  [totalWords |-> totalWords,
              learnedUnique |-> learnedUnique,
              remaining |-> remaining,
              dailyGoal |-> plan.dailyLimit,
              todayLearned |-> planState.todayLearnedCount,
              isFinished |-> remaining = 0,
              daysSinceStart |-> Max(1, ((currentDate - startDate) \div MsPerDay) + 1),
              daysTarget |-> StatsDaysTarget(totalWords),
              createdAt |-> plan.createdAt]

\* The counts fetchRawNewWords is called with: none, some, more than the
\* catalog has words.
Counts == 0..(Len(allWords) + 1)

\* Faulty variant of fetchRawNewWords: the count is cut to the day's quota.
fetchRawNewWordsWithinQuota(count) ==
    IF plan = NoPlan THEN {<<>>}
    ELSE LET remainingQuota == Max(0, plan.dailyLimit - planState.todayLearnedCount)
         IN  {Slice(u, Min(count, remainingQuota)) : u \in unlearned}

\* fetchRawNewWords(count), count >= 0: the lists the call can return.
fetchRawNewWords(count) ==
    IF plan = NoPlan THEN {<<>>}
    ELSE {Slice(u, count) : u \in unlearned}

\* Array.from(new Set(arr)): the first occurrence of every element, in order.
Unique(arr) ==
    SelectSeq([i \in 1..Len(arr) |-> [at |-> i, value |-> arr[i]]],
              LAMBDA e : \A j \in 1..(e.at - 1) : arr[j] # e.value)

\* getReviewTask(mode): the words of the returned list, in its order.
getReviewTask(mode) ==
    LET todayStart == StartOfDay(now)
        dueReviews ==
            SelectSeq(planWords, LAMBDA w :
                /\ w.word \in DOMAIN progress
                /\ progress[w.word].status # "new"
                /\ progress[w.word].nextReview <= now)
        learnedToday ==
            SelectSeq(planWords, LAMBDA w :
                /\ w.word \in DOMAIN progress
                /\ progress[w.word].lastReview >= todayStart)
        merged == Unique(dueReviews \o learnedToday)
    IN  IF mode = "today"
        THEN [i \in 1..Len(merged) |-> merged[i].value]
        ELSE learnedToday

\* Filters of getMistakesList.
MistakeFilters == {"all", "today", "high-freq"}

\* (a, b) => (progress[b.word]?.errorCount || 0) - (progress[a.word]?.errorCount || 0)
ByErrorCountDescending(arr) ==
    [p \in Elements(arr) \X Elements(arr) |->
        RecordOr(progress, p[2].word, DefaultProgress).errorCount
            - RecordOr(progress, p[1].word, DefaultProgress).errorCount]

\* getMistakesList(filter)
getMistakesList(filter) ==
    LET list ==
            SelectSeq(planWords, LAMBDA w :
                IF w.word \notin DOMAIN progress \/ progress[w.word].errorCount = 0
                THEN FALSE
                ELSE IF filter = "today"
                THEN Includes(planState.todayMistakes, w.word)
                ELSE IF filter = "high-freq"
                THEN progress[w.word].errorCount >= 2
                ELSE TRUE)
    IN  IF filter = "high-freq" \/ filter = "all"
        THEN Sort(list, ByErrorCountDescending(list))
        ELSE list

(***************************************************************************)
(* The ranking service: the users table and the sync upsert.  A row is     *)
(* {username, avatarId, avatarColor, score}; the columns password and      *)
(* updatedAt, which neither the upsert's merge nor the leaderboard query   *)
(* reads, are left out.                                                    *)
(***************************************************************************)
\* The user of the session.
TheUser ==
    [id |-> "u1", username |-> "ann", avatarId |-> "red", avatarColor |-> "#FF595E"]

\* The local admin.
ADMIN_USER ==
    [id |-> "admin_zhx", username |-> "zhx", avatarColor |-> "#023047",
     isAdmin |-> TRUE]

Ids == {"u1", "u2"}
Usernames == {"ann", "bob"}
Avatars == {[avatarId |-> "red", avatarColor |-> "#FF595E"],
            [avatarId |-> "blue", avatarColor |-> "#219EBC"]}

\* The bodies POST /api/sync is called with: a LeaderboardEntry of any
\* identity, name, avatar and score, or one whose username is empty.
SyncRequests ==
    {[id |-> i, username |-> u, avatarId |-> a.avatarId,
      avatarColor |-> a.avatarColor, score |-> sc] :
        i \in Ids, u \in Usernames \cup {""}, a \in Avatars, sc \in 0..MaxScore}

\* The table without rows, and the table the service starts SpecSync with:
\* the session's user is stored with score 1.
EmptyTable == [i \in {} |-> [username |-> "", avatarId |-> "", avatarColor |-> "", score |-> 0]]

BootTable ==
    [i \in {"u1"} |-> [username |-> "ann", avatarId |-> "red",
                        avatarColor |-> "#FF595E", score |-> 1]]

\* username TEXT UNIQUE: the name is held by the row of another id.
UsernameTaken(table, req) ==
    \E other \in DOMAIN table \ {req.id} : table[other].username = req.username

\* Faulty variant of Upsert: the incoming score replaces the stored one.
UpsertOverwrites(table, req) ==
    [i \in DOMAIN table \cup {req.id} |->
        IF i # req.id THEN table[i]
        ELSE [username |-> req.username, avatarId |-> req.avatarId,
              avatarColor |-> req.avatarColor, score |-> req.score]]

\* Faulty variant of Upsert: a stored score is never updated.
UpsertKeepsScore(table, req) ==
    [i \in DOMAIN table \cup {req.id} |->
        IF i # req.id THEN table[i]
        ELSE [username |-> req.username, avatarId |-> req.avatarId,
              avatarColor |-> req.avatarColor,
              score |-> IF i \in DOMAIN table THEN table[i].score ELSE req.score]]

\* INSERT ... ON CONFLICT(id) DO UPDATE SET username = excluded.username,
\* avatarId = ..., avatarColor = ..., score = max(score, excluded.score):
\* the table the statement leaves when no constraint fails.
Upsert(table, req) ==
    [i \in DOMAIN table \cup {req.id} |->
        IF i # req.id THEN table[i]
        ELSE [username |-> req.username, avatarId |-> req.avatarId,
              avatarColor |-> req.avatarColor,
              score |-> IF i \in DOMAIN table
                        THEN Max(table[i].score, req.score)
                        ELSE req.score]]

\* The status POST /api/sync answers with: 400 without id or username, 500
\* when the statement fails (the username is held by another row), else 200.
SyncStatus(table, req) ==
    IF req.id = "" \/ req.username = "" THEN 400
    ELSE IF UsernameTaken(table, req) THEN 500
    ELSE 200

\* The table POST /api/sync leaves: a failed statement changes nothing.
SyncTable(table, req) ==
    IF SyncStatus(table, req) = 200 THEN Upsert(table, req) ELSE table

\* The requests applied so far, after POST /api/sync has handled req.
SyncLog(table, log, req) ==
    IF SyncStatus(table, req) = 200
    THEN log \cup {[id |-> req.id, score |-> req.score]}
    ELSE log

\* The handler of POST /api/sync, called by any writer.
Sync(req) ==
    /\ usersTable' = SyncTable(usersTable, req)
    /\ applied' = SyncLog(usersTable, applied, req)
    /\ UNCHANGED <<user, loads, board>>
    /\ UNCHANGED hookVars
    /\ UNCHANGED storeVars

\* LIMIT 50
LeaderboardLimit == 50

\* GET /api/leaderboard: SELECT id, username, avatarId, avatarColor, score
\* FROM users ORDER BY score DESC LIMIT 50.  The lists the query can
\* return: rows of equal score come in any order.
Leaderboard(table) ==
    LET rows == {[id |-> i, username |-> table[i].username,
                  avatarId |-> table[i].avatarId,
                  avatarColor |-> table[i].avatarColor,
                  score |-> table[i].score] : i \in DOMAIN table}
        n == Min(LeaderboardLimit, Cardinality(rows))
    IN  {r \in [1..n -> rows] :
            /\ \A i, j \in 1..n : i < j => r[i] # r[j] /\ r[i].score >= r[j].score
            /\ \A row \in rows \ Elements(r) : \A i \in 1..n : r[i].score >= row.score}

(***************************************************************************)
(* The leaderboard page: loadData and the client calls it makes.           *)
(***************************************************************************)
\* The loadData calls of the page, numbered in the order they are made.
LoadIds == 1..MaxLoads

\* What happens to a request on the wire: the service is unreachable, the
\* service handles it and the response arrives, or it handles it and the
\* response is lost.
WireOutcomes == {"unreachable", "handled", "lost"}

\* A loadData call that has not been made.
IdleLoad == [pc |-> "idle"]

\* A loadData call that has returned, and what it left on the page.
DoneLoad(shown) ==
    [pc |-> "done", leaderboard |-> shown.leaderboard, isOffline |-> shown.isOffline]

\* useState<LeaderboardEntry[]>([]), useState(true), useState(false)
PageInit ==
    /\ loads = [l \in LoadIds |-> IdleLoad]
    /\ board = [leaderboard |-> <<>>, loading |-> TRUE, isOffline |-> FALSE]

\* The service before any request.
ServiceInit(table) ==
    /\ usersTable = table
    /\ applied = {}

\* The local users list of the auth context: it is never filled.
users == <<>>

\* getLocalScore(userId): the records with status not new in the progress
\* map stored under the id's key, 0 when there is no item.
getLocalScore(userId) ==
    IF userId \in StoreIds /\ storage[userId].progress # {}
    THEN LET pMap == CHOOSE p \in storage[userId].progress : TRUE
         IN  Cardinality({w \in DOMAIN pMap : pMap[w].status # "new"})
    ELSE 0

\* Faulty variant of syncScore: the call has no catch.
syncScoreRethrows(wire) == IF wire = "handled" THEN "resolved" ELSE "rejected"

\* syncScore(data): how the call's promise settles.  fetch rejects when no
\* response arrives, the catch swallows that; the status of a response is
\* not read.
syncScore(wire) == "resolved"

\* The statuses GET /api/leaderboard answers with: 200, or 500 when the
\* query fails.
FetchStatuses == {200, 500}

\* fetchLeaderboard(): the list the call resolves with: the rows of an ok
\* response, [] when fetch rejects or the response is not ok.
fetchLeaderboard(wire, status, rows) ==
    IF wire = "handled" /\ status = 200 THEN rows ELSE <<>>

\* The filler entries of the fallback ranking.
bots ==
    <<[id |-> "bot_1", username |-> "Alex", avatarId |-> "blue",
       avatarColor |-> "#219EBC", score |-> 120],
      [id |-> "bot_2", username |-> "Sarah", avatarId |-> "red",
       avatarColor |-> "#FF595E", score |-> 85],
      [id |-> "bot_3", username |-> "Tom", avatarId |-> "green",
       avatarColor |-> "#8AC926", score |-> 45],
      [id |-> "bot_4", username |-> "Lily", avatarId |-> "yellow",
       avatarColor |-> "#FFCA3A", score |-> 30]>>

\* (a, b) => b.score - a.score
ByScoreDescending(arr) ==
    [p \in Elements(arr) \X Elements(arr) |-> p[2].score - p[1].score]

\* The catch block's ranking: the local users that are not admins, with
\* their local scores, and the bots, sorted by score.
FallbackRanking ==
    LET locals == SelectSeq(users, LAMBDA u : ~("isAdmin" \in DOMAIN u /\ u.isAdmin))
        localUsers == [i \in 1..Len(locals) |->
                          [id |-> locals[i].id, username |-> locals[i].username,
                           avatarId |-> locals[i].avatarId,
                           avatarColor |-> locals[i].avatarColor,
                           score |-> getLocalScore(locals[i].id)]]
        all == localUsers \o bots
    IN  Sort(all, ByScoreDescending(all))

\* The page after the catch and finally blocks of loadData.
Offline == [leaderboard |-> FallbackRanking, loading |-> FALSE, isOffline |-> TRUE]

\* No sync request was sent.
NoRequest == [null |-> TRUE]

\* loadData up to its first await, in a render whose user is u: loading is
\* shown and, with a user, the local score is sent to the service; without
\* one the fetch is next.
loadData(l, u) ==
    /\ loads[l].pc = "idle"
    /\ \A k \in LoadIds : k < l => loads[k].pc # "idle"
    /\ board' = [board EXCEPT !.loading = TRUE]
    /\ loads' = [loads EXCEPT ![l] =
          IF u # NoUser
          THEN [pc |-> "sync",
                sent |-> [id |-> u.id, username |-> u.username,
                          avatarId |-> u.avatarId,
                          avatarColor |-> u.avatarColor,
                          score |-> getLocalScore(u.id)]]
          ELSE [pc |-> "fetch", sent |-> NoRequest, accepted |-> FALSE,
                syncOk |-> TRUE]]

\* loadData is called by the effect of the page's first render, or by the
\* refresh button, which is disabled while loading is shown.
StartLoad(l) ==
    /\ board.loading => l = 1
    /\ loadData(l, user)
    /\ UNCHANGED <<user, usersTable, applied>>
    /\ UNCHANGED hookVars
    /\ UNCHANGED storeVars

\* Faulty variant of SettleSync: the service answers the sync request
\* without executing the statement.
SettleSyncSkipsUpsert(l, wire) ==
    /\ loads[l].pc = "sync"
    /\ LET req == loads[l].sent
           reached == wire \in {"handled", "lost"}
       IN  /\ usersTable' = usersTable
           /\ applied' = IF reached THEN SyncLog(usersTable, applied, req) ELSE applied
           /\ loads' = [loads EXCEPT ![l] =
                 [pc |-> "fetch", sent |-> req,
                  accepted |-> reached /\ SyncStatus(usersTable, req) = 200,
                  syncOk |-> wire = "handled"
                             /\ SyncStatus(usersTable, req) = 200]]
           /\ UNCHANGED board
    /\ UNCHANGED user
    /\ UNCHANGED hookVars
    /\ UNCHANGED storeVars

\* The sync request settles: the service handles it unless it is
\* unreachable, and syncScore settles; loadData goes on to the fetch, or
\* to its catch block if the await throws.
SettleSync(l, wire) ==
    /\ loads[l].pc = "sync"
    /\ LET req == loads[l].sent
           reached == wire \in {"handled", "lost"}
       IN  /\ usersTable' = IF reached THEN SyncTable(usersTable, req) ELSE usersTable
           /\ applied' = IF reached THEN SyncLog(usersTable, applied, req) ELSE applied
           /\ IF syncScore(wire) = "rejected"
              THEN /\ board' = Offline
                   /\ loads' = [loads EXCEPT ![l] = DoneLoad(board')]
              ELSE /\ loads' = [loads EXCEPT ![l] =
                         [pc |-> "fetch", sent |-> req,
                          accepted |-> reached /\ SyncStatus(usersTable, req) = 200,
                          syncOk |-> wire = "handled"
                                     /\ SyncStatus(usersTable, req) = 200]]
                   /\ UNCHANGED board
    /\ UNCHANGED user
    /\ UNCHANGED hookVars
    /\ UNCHANGED storeVars

\* The fetch request settles: the service answers with the rows of the
\* table at that moment, or the request fails; fetchLeaderboard resolves.
ServeFetch(l, wire, status) ==
    /\ loads[l].pc = "fetch"
    /\ \E rows \in Leaderboard(usersTable) :
          loads' = [loads EXCEPT ![l] =
              [pc |-> "render", sent |-> @.sent, accepted |-> @.accepted,
               syncOk |-> @.syncOk,
               fetchOk |-> wire = "handled" /\ status = 200,
               data |-> fetchLeaderboard(wire, status, rows)]]
    /\ UNCHANGED <<user, usersTable, applied, board>>
    /\ UNCHANGED hookVars
    /\ UNCHANGED storeVars

\* Faulty variant of FinishLoad: the head of the fallback ranking is written
\* back to the service.
FinishLoadWritesBack(l) ==
    /\ loads[l].pc = "render"
    /\ board' = IF Len(loads[l].data) > 0
                THEN [leaderboard |-> loads[l].data, loading |-> FALSE,
                      isOffline |-> FALSE]
                ELSE Offline
    /\ loads' = [loads EXCEPT ![l] = DoneLoad(board')]
    /\ usersTable' = IF Len(loads[l].data) > 0
                     THEN usersTable
                     ELSE SyncTable(usersTable, FallbackRanking[1])
    /\ UNCHANGED <<user, applied>>
    /\ UNCHANGED hookVars
    /\ UNCHANGED storeVars

\* loadData ends: the fetched list is shown if it has entries, else the
\* "Empty data" error is thrown and caught; finally loading is over.
FinishLoad(l) ==
    /\ loads[l].pc = "render"
    /\ board' = IF Len(loads[l].data) > 0
                THEN [leaderboard |-> loads[l].data, loading |-> FALSE,
                      isOffline |-> FALSE]
                ELSE Offline
    /\ loads' = [loads EXCEPT ![l] = DoneLoad(board')]
    /\ UNCHANGED <<user, usersTable, applied>>
    /\ UNCHANGED hookVars
    /\ UNCHANGED storeVars

(***************************************************************************)
(* Initial states: the hook's initial values, then the load effect reading *)
(* the user's persisted slice at ClockStart.                               *)
(***************************************************************************)
Loaded(saved) ==
    /\ now = ClockStart
    /\ plan = saved.plan
    /\ testHistory = saved.testHistory
    /\ progress = EmptyProgress
    /\ planState = FreshPlanState(ClockStart)

\* The load effect is over when there is a user, and the save effects have
\* run on what it loaded.
Persisted ==
    /\ isLoaded = (user # NoUser)
    /\ storage = SaveEffects(EmptyStorage, user, plan, planState, progress,
                             testHistory, isLoaded)

\* The session is authenticated, the service has no row and the leaderboard
\* page has its initial values.
Authenticated ==
    /\ user = TheUser
    /\ ServiceInit(EmptyTable)
    /\ PageInit
    /\ Persisted

\* A session that finds its plan in persistence.
Init ==
    /\ Loaded([plan |-> SavedPlan, testHistory |-> <<SavedTest>>])
    /\ Authenticated

\* A session that finds either nothing or its plan.
InitPlan ==
    /\ \E saved \in SavedSlices : Loaded(saved)
    /\ Authenticated

\* The tables the service starts SpecBoard with: no row, or a row of
\* another identity that holds the user's name.
NameTakenTable ==
    [i \in {"u2"} |-> [username |-> "ann", avatarId |-> "blue",
                        avatarColor |-> "#219EBC", score |-> 1]]

BoardTables == {EmptyTable, NameTakenTable}

\* The leaderboard page is opened, by the session's user or by nobody (the
\* hook then has its initial values).
InitBoard ==
    /\ \/ user = TheUser /\ Loaded([plan |-> SavedPlan, testHistory |-> <<SavedTest>>])
       \/ user = NoUser /\ Loaded([plan |-> NoPlan, testHistory |-> <<>>])
    /\ \E table \in BoardTables : ServiceInit(table)
    /\ PageInit
    /\ Persisted

\* The service holds the row of the session's user.
InitSync ==
    /\ Loaded([plan |-> SavedPlan, testHistory |-> <<SavedTest>>])
    /\ user = TheUser
    /\ ServiceInit(BootTable)
    /\ PageInit
    /\ Persisted

\* What the local admin has persisted when SpecSession starts: nothing, or
\* the slice of a session that saved a plan over the first book and learned
\* its word at ClockStart.
AdminPlan ==
    [id |-> NumPlanIds, createdAt |-> ClockStart, selectedBooks |-> {"b1"},
     planMode |-> "count", dailyLimit |-> 1, learnOrder |-> "alphabetical"]

AdminSlice ==
    [plan |-> {AdminPlan},
     state |-> {[todayDate |-> DateString(ClockStart), todayLearnedCount |-> 1,
                 todayMistakes |-> <<>>]},
     progress |-> {Put(EmptyProgress, "banana",
                       LearnUpdate(DefaultProgress, "know", ClockStart))},
     history |-> {<<>>}]

AdminSlices == {EmptySlice, AdminSlice}

\* The session's user is logged in and known to the service, the slice is
\* loaded; the admin has a slice or none.
InitSession ==
    /\ \E saved \in SavedSlices : Loaded(saved)
    /\ user = TheUser
    /\ ServiceInit(BootTable)
    /\ PageInit
    /\ isLoaded = TRUE
    /\ \E slice \in AdminSlices :
          storage = SaveEffects([EmptyStorage EXCEPT ![ADMIN_USER.id] = slice],
                                user, plan, planState, progress, testHistory,
                                isLoaded)

(***************************************************************************)
(* Operations.  Each ends with the save effects that its state changes     *)
(* trigger.                                                                *)
(***************************************************************************)
Save ==
    /\ storage' = SaveEffects(storage, user, plan', planState', progress',
                              testHistory', isLoaded)
    /\ UNCHANGED isLoaded

\* The plan the load effect reads from the items of an id, or null.
LoadPlan(slice) ==
    IF slice.plan = {} THEN NoPlan ELSE CHOOSE p \in slice.plan : TRUE

\* Faulty variant of LoadPlanState: the stored day state is never taken.
LoadPlanStateAlwaysFresh(slice, ps, t) ==
    IF slice.plan = {} THEN ps ELSE FreshPlanState(t)

\* What else the load effect reads from the items of an id:
\* the day state (with a stored plan: the stored state if it is of the day
\* of t, else a fresh one; without one the state is not set), the progress
\* map or {}, the test history or [].
LoadPlanState(slice, ps, t) ==
    IF slice.plan = {} THEN ps
    ELSE IF slice.state = {} THEN FreshPlanState(t)
    ELSE LET s == CHOOSE x \in slice.state : TRUE
         IN  IF s.todayDate # DateString(t) THEN FreshPlanState(t) ELSE s

LoadProgress(slice) ==
    IF slice.progress = {} THEN EmptyProgress ELSE CHOOSE p \in slice.progress : TRUE

LoadHistory(slice) ==
    IF slice.history = {} THEN <<>> ELSE CHOOSE h \in slice.history : TRUE

\* setUser(u) and the hook's effects that follow, until no effect changes
\* the state.  The first render has the new user and the old state: the
\* load effect reads the items of u, the day-rollover effect and the save
\* effects run on the old state; the state updates are applied together,
\* of two setPlanState calls the later one wins.  The second render has
\* what was loaded: the day-rollover effect and the save effects run on it.
SetUser(u) ==
    /\ user' = u
    /\ IF u = NoUser
       THEN /\ isLoaded' = FALSE
            /\ UNCHANGED <<plan, progress, planState, testHistory, storage>>
       ELSE LET slice == storage[u.id]
                written == SaveEffects(storage, u, plan, planState, progress,
                                       testHistory, isLoaded)
                loaded == IF DayRollover(plan, planState, now) # planState
                          THEN FreshPlanState(now)
                          ELSE LoadPlanState(slice, planState, now)
            IN  /\ isLoaded' = TRUE
                /\ plan' = LoadPlan(slice)
                /\ progress' = LoadProgress(slice)
                /\ testHistory' = LoadHistory(slice)
                /\ planState' = DayRollover(plan', loaded, now)
                /\ storage' = SaveEffects(written, u, plan', planState', progress',
                                          testHistory', TRUE)
    /\ UNCHANGED now

\* logout()
Logout ==
    /\ user # NoUser
    /\ SetUser(NoUser)
    /\ UNCHANGED <<usersTable, applied, loads, board>>

\* logout() while the leaderboard page is shown: its effect on user calls
\* loadData.
LogoutOnBoard(l) ==
    /\ user # NoUser
    /\ loads[1].pc # "idle"
    /\ SetUser(NoUser)
    /\ loadData(l, NoUser)
    /\ UNCHANGED <<usersTable, applied>>

\* POST /api/auth/login finds the row of the name (the password given is
\* the one stored).
LoginFinds(u) ==
    /\ u.id \in DOMAIN usersTable
    /\ usersTable[u.id].username = u.username

\* login(username, pass) that succeeds: the local admin bypass, or the
\* service finds the user.
Login(u) ==
    /\ u = ADMIN_USER \/ LoginFinds(u)
    /\ SetUser(u)
    /\ UNCHANGED <<usersTable, applied, loads, board>>

RecordLearnResult(word, result) ==
    LET current == RecordOr(progress, word, DefaultProgress) IN
    /\ progress' = Put(progress, word, LearnUpdate(current, result, now))
    /\ planState' = LearnPlanState(planState, current, word, result)
    /\ UNCHANGED <<now, plan, testHistory>>
    /\ UNCHANGED syncVars
    /\ Save

\* Faulty variant of RecordReviewResult: a word without record is reviewed
\* from the default record.
RecordReviewResultCreates(word, result, mode) ==
    LET current == RecordOr(progress, word, DefaultProgress) IN
    /\ progress' = Put(progress, word, ReviewUpdate(current, result, now))
    /\ planState' = IF result = "dont-know"
                    THEN recordMistake(planState, word)
                    ELSE planState
    /\ UNCHANGED <<now, plan, testHistory>>
    /\ UNCHANGED syncVars
    /\ Save

RecordReviewResult(word, result, mode) ==
    /\ IF word \notin DOMAIN progress
       THEN UNCHANGED <<progress, planState>>
       ELSE /\ progress' = Put(progress, word, ReviewUpdate(progress[word], result, now))
            /\ planState' = IF result = "dont-know"
                            THEN recordMistake(planState, word)
                            ELSE planState
    /\ UNCHANGED <<now, plan, testHistory>>
    /\ UNCHANGED syncVars
    /\ Save

RecordTestResult(word, isCorrect) ==
    LET current == RecordOr(progress, word, DefaultProgress) IN
    /\ IF isCorrect
       THEN UNCHANGED <<progress, planState>>
       ELSE /\ progress' = Put(progress, word, TestUpdate(current, now))
            /\ planState' = recordMistake(planState, word)
    /\ UNCHANGED <<now, plan, testHistory>>
    /\ UNCHANGED syncVars
    /\ Save

\* savePlan, followed by the day-rollover effect that a change of plan
\* re-runs.
SavePlan(settings) ==
    /\ IF IsReset(plan, settings)
       THEN /\ \E newId \in PlanIds :
                  /\ plan # NoPlan => newId # plan.id
                  /\ plan' = Spread(settings, [id |-> newId, createdAt |-> now])
            /\ progress' = EmptyProgress
            /\ planState' = DayRollover(plan', FreshPlanState(now), now)
            /\ testHistory' = <<>>
       ELSE /\ plan' = Spread(plan, settings)
            /\ planState' = DayRollover(plan', planState, now)
            /\ UNCHANGED <<progress, testHistory>>
    /\ UNCHANGED now
    /\ UNCHANGED syncVars
    /\ Save

\* The clock advances; the day-rollover effect runs on the new day string,
\* and returns at once without a user.
Tick ==
    /\ now' = now + ClockStep
    /\ planState' = IF user = NoUser
                    THEN planState
                    ELSE DayRollover(plan, planState, now')
    /\ UNCHANGED <<plan, progress, testHistory>>
    /\ UNCHANGED syncVars
    /\ Save

(***************************************************************************)
(* Bounds on the inputs.                                                   *)
(***************************************************************************)
\* The errors the records hold in total.
RECURSIVE ErrorTotal(_, _)
ErrorTotal(pm, keys) ==
    IF keys = {} THEN 0
    ELSE LET w == CHOOSE x \in keys : TRUE
         IN  pm[w].errorCount + ErrorTotal(pm, keys \ {w})

\* A failing answer is given only while the error budget lasts.
MayFail == ErrorTotal(progress, DOMAIN progress) < MaxErrors

\* A know answer on the word is given only while the others are at a low
\* stage.
MayAdvance(word) ==
    \A v \in DOMAIN progress \ {word} : progress[v].stage <= MaxSideStage

\* The clock stops at ClockEnd.
MayTick == now < ClockEnd

\* Words that have no record or a record with status new.
IsNewWord(word) == RecordOr(progress, word, DefaultProgress).status = "new"

(***************************************************************************)
(* Spec: the progress engine under a fixed plan.  Any order of learn,      *)
(* review and test calls on any word with any outcome, within the error    *)
(* budget and with one word at a time climbing the stages, and the clock.  *)
(***************************************************************************)
Next ==
    \/ \E word \in WordKeys, result \in Results :
          /\ result = "dont-know" => MayFail
          /\ result = "know" => MayAdvance(word)
          /\ RecordLearnResult(word, result)
    \/ \E word \in WordKeys, result \in Results, mode \in ReviewModes :
          /\ result = "dont-know" => MayFail
          /\ result = "know" => MayAdvance(word)
          /\ RecordReviewResult(word, result, mode)
    \/ \E word \in WordKeys, isCorrect \in BOOLEAN :
          /\ ~isCorrect => MayFail
          /\ RecordTestResult(word, isCorrect)
    \/ MayTick /\ Tick

Spec == Init /\ [][Next]_vars

(***************************************************************************)
(* SpecPlan: plan management.  savePlan with any of SettingsChoices, the   *)
(* clock, and the calls that fill the state savePlan may wipe: a first     *)
(* learn call on a new word and a failed test.                             *)
(***************************************************************************)
NextPlan ==
    \/ \E settings \in SettingsChoices : SavePlan(settings)
    \/ \E word \in WordKeys, result \in Results :
          /\ IsNewWord(word)
          /\ result = "dont-know" => MayFail
          /\ RecordLearnResult(word, result)
    \/ \E word \in WordKeys : MayFail /\ RecordTestResult(word, FALSE)
    \/ MayTick /\ Tick

SpecPlan == InitPlan /\ [][NextPlan]_vars

(***************************************************************************)
(* SpecSync: the ranking service under the sync requests of any number of  *)
(* writers, in any order.                                                  *)
(***************************************************************************)
NextSync == \E req \in SyncRequests : Sync(req)

SpecSync == InitSync /\ [][NextSync]_vars

(***************************************************************************)
(* SpecBoard: the leaderboard page.  loadData calls run against the        *)
(* service, every request with any outcome, while the user learns words.   *)
(***************************************************************************)
NextBoard ==
    \/ \E l \in LoadIds : StartLoad(l)
    \/ \E l \in LoadIds, wire \in WireOutcomes : SettleSync(l, wire)
    \/ \E l \in LoadIds, wire \in WireOutcomes, status \in FetchStatuses :
          ServeFetch(l, wire, status)
    \/ \E l \in LoadIds : FinishLoad(l)
    \/ \E l \in LoadIds : LogoutOnBoard(l)
    \/ \E word \in WordKeys :
          /\ user # NoUser
          /\ IsNewWord(word)
          /\ RecordLearnResult(word, "know")

SpecBoard == InitBoard /\ [][NextBoard]_vars

(***************************************************************************)
(* SpecTask: the new-word tasks over the life of a plan.  savePlan with    *)
(* any of TaskSettings, learn, review and test calls on any word, and the  *)
(* clock.  The answers share the error budget: the errors and the stages   *)
(* of the records stay below MaxErrors in total.                           *)
(***************************************************************************)
\* The settings of SettingsChoices with the first book and a daily limit of
\* 1: the first book or both, in count mode or days mode.
TaskSettings ==
    {s \in SettingsChoices : "b1" \in s.selectedBooks /\ s.dailyLimit = 1}

RECURSIVE StageTotal(_, _)
StageTotal(pm, keys) ==
    IF keys = {} THEN 0
    ELSE LET w == CHOOSE x \in keys : TRUE
         IN  pm[w].stage + StageTotal(pm, keys \ {w})

MayAnswer ==
    ErrorTotal(progress, DOMAIN progress) + StageTotal(progress, DOMAIN progress)
        < MaxErrors

NextTask ==
    \/ \E settings \in TaskSettings : SavePlan(settings)
    \/ \E word \in WordKeys, result \in Results :
          MayAnswer /\ RecordLearnResult(word, result)
    \/ \E word \in WordKeys, result \in Results, mode \in ReviewModes :
          MayAnswer /\ RecordReviewResult(word, result, mode)
    \/ \E word \in WordKeys, isCorrect \in BOOLEAN :
          MayAnswer /\ RecordTestResult(word, isCorrect)
    \/ MayTick /\ Tick

SpecTask == InitPlan /\ [][NextTask]_vars

(***************************************************************************)
(* SpecStats: the statistics.  savePlan with any of StatsSettings, first   *)
(* learn calls on any word of the catalog, and the clock.                  *)
(***************************************************************************)
NextStats ==
    \/ \E settings \in StatsSettings : SavePlan(settings)
    \/ \E word \in WordKeys, result \in Results :
          /\ IsNewWord(word)
          /\ result = "dont-know" => MayFail
          /\ RecordLearnResult(word, result)
    \/ MayTick /\ Tick

SpecStats == InitPlan /\ [][NextStats]_vars

(***************************************************************************)
(* SpecSession: changes of identity.  The users log in and out in any      *)
(* order, with or without a logout in between; whoever is logged in       *)
(* learns new words, and the clock advances.                               *)
(***************************************************************************)
Users == {TheUser, ADMIN_USER}

NextSession ==
    \/ \E u \in Users : Login(u)
    \/ Logout
    \/ \E word \in WordKeys, result \in Results :
          /\ user # NoUser
          /\ IsNewWord(word)
          /\ result = "dont-know" => MayFail
          /\ RecordLearnResult(word, result)
    \/ MayTick /\ Tick

SpecSession == InitSession /\ [][NextSession]_vars

(***************************************************************************)
(* SpecRank: the leaderboard page of SpecBoard while the user's other      *)
(* devices sync scores of their own to the service at any moment.          *)
(***************************************************************************)
\* The bodies another device of the session's user calls POST /api/sync
\* with: the user's entry with the score of that device's progress.
DeviceRequests ==
    {[id |-> TheUser.id, username |-> TheUser.username,
      avatarId |-> TheUser.avatarId, avatarColor |-> TheUser.avatarColor,
      score |-> sc] : sc \in 0..MaxScore}

NextRank ==
    \/ NextBoard
    \/ \E req \in DeviceRequests : Sync(req)

SpecRank == InitBoard /\ [][NextRank]_vars

(***************************************************************************)
(* Properties.                                                             *)
(***************************************************************************)
\* The record a call on the word starts from: the word's record, or the
\* default one.
Before(word) == RecordOr(progress, word, DefaultProgress)

\* Words that have a record before and after the step.
Kept == DOMAIN progress \cap DOMAIN progress'

\* C1: after any learn, review or test call every record's stage is an
\* integer in 0..8, and no call lowers the errorCount of a record.
C1_StageBoundedErrorsMonotone ==
    [][/\ \A w \in DOMAIN progress' : progress'[w].stage \in 0..8
       /\ \A w \in Kept : progress'[w].errorCount >= progress[w].errorCount]_vars

\* C1 witness: a record that climbed to stage 8 after an error.
C1_Witness ==
    \E w \in DOMAIN progress : progress[w].stage = 8 /\ progress[w].errorCount >= 1

\* C2: a learn call adds exactly 1 to todayLearnedCount when the word has no
\* record or status new and adds nothing otherwise; review and test calls
\* add nothing.  (Each line reads "the call => the count", written with the
\* count first.)
C2_LearnedCountOncePerWord ==
    [][/\ \A w \in WordKeys, r \in Results :
             \/ planState'.todayLearnedCount =
                   planState.todayLearnedCount
                      + (IF w \notin DOMAIN progress \/ progress[w].status = "new"
                         THEN 1 ELSE 0)
             \/ ~RecordLearnResult(w, r)
       /\ \A w \in WordKeys, r \in Results, m \in ReviewModes :
             \/ planState'.todayLearnedCount = planState.todayLearnedCount
             \/ ~RecordReviewResult(w, r, m)
       /\ \A w \in WordKeys, c \in BOOLEAN :
             \/ planState'.todayLearnedCount = planState.todayLearnedCount
             \/ ~RecordTestResult(w, c)]_vars

\* C2 witness: one word, learned and advanced over several calls, and a
\* count of 1.
C2_Witness ==
    /\ planState.todayLearnedCount = 1
    /\ \E w \in WordKeys :
          /\ DOMAIN progress = {w}
          /\ progress[w].status # "new"
          /\ progress[w].stage >= 3

\* C3: without a plan reset the status of a record never reverts: learning
\* never becomes new, mastered stays mastered.
C3_StatusNeverReverts ==
    [][\A w \in Kept :
          /\ progress[w].status = "learning" => progress'[w].status # "new"
          /\ progress[w].status = "mastered" => progress'[w].status = "mastered"]_vars

\* C3 witness: a mastered record whose stage was lowered below 5.
C3_Witness ==
    \E w \in DOMAIN progress :
        progress[w].status = "mastered" /\ progress[w].stage < 5

\* C4: a know answer, through learn or review, that leaves the record at
\* stage >= 5 leaves it mastered.
C4_KnowAtStage5Masters ==
    [][\A w \in DOMAIN progress' :
          \/ progress'[w].stage < 5
          \/ progress'[w].status = "mastered"
          \/ ~(\/ RecordLearnResult(w, "know")
               \/ \E m \in ReviewModes : RecordReviewResult(w, "know", m))]_vars

\* C5: every record with status new has stage 0 and firstLearnedAt 0.
C5_NewMeansUntouched ==
    \A w \in DOMAIN progress :
        progress[w].status = "new" =>
            progress[w].stage = 0 /\ progress[w].firstLearnedAt = 0

\* The interval table of the claim, in minutes.
C6_Table == <<5, 30, 720, 1440, 2880, 5760, 10080, 20160, 30240>>

\* C6: a know answer at stage s, through learn or review, gives stage
\* min(s+1, 8), lastReview = now and
\* nextReview = lastReview + INTERVAL[min(s+1, 8)] minutes.
C6_KnowSchedule ==
    [][\A w \in DOMAIN progress' :
          LET s == Before(w).stage
              n == IF s + 1 < 8 THEN s + 1 ELSE 8
          IN  \/ /\ progress'[w].stage = n
                 /\ progress'[w].lastReview = now
                 /\ progress'[w].nextReview =
                       progress'[w].lastReview + C6_Table[n + 1] * 60000
              \/ ~(\/ RecordLearnResult(w, "know")
                   \/ \E m \in ReviewModes : RecordReviewResult(w, "know", m))]_vars

\* C6 witness: after a tick, a record clamped at stage 8 and scheduled
\* 30240 minutes after now.
C6_Witness ==
    /\ now > ClockStart
    /\ \E w \in DOMAIN progress :
          /\ progress[w].stage = 8
          /\ progress[w].lastReview = now
          /\ progress[w].nextReview = now + 30240 * 60000

\* What every dont-know answer through learn does to the word.
C7_Failure(w) ==
    /\ progress'[w].stage = 0
    /\ progress'[w].errorCount = Before(w).errorCount + 1
    /\ progress'[w].nextReview = now + 5 * 60000
    /\ Includes(planState'.todayMistakes, w)

\* C7 as stated: a dont-know answer through learn sets stage 0, adds one
\* error, schedules the review in 5 minutes and lists the mistake; on a
\* word without record or with status new the record becomes
\* {learning, stage 0, errorCount 1, firstLearnedAt now}.
C7_AsStated ==
    [][\A w \in DOMAIN progress' :
          \/ /\ C7_Failure(w)
             /\ Before(w).status = "new" =>
                   /\ progress'[w].status = "learning"
                   /\ progress'[w].stage = 0
                   /\ progress'[w].errorCount = 1
                   /\ progress'[w].firstLearnedAt = now
          \/ ~RecordLearnResult(w, "dont-know")]_vars

\* C7 amended: as stated, but errorCount 1 is claimed for a word without
\* record only; a status-new record left by failed tests gets one more error
\* than it had.
C7_LearnFailure ==
    [][\A w \in DOMAIN progress' :
          \/ /\ C7_Failure(w)
             /\ Before(w).status = "new" =>
                   /\ progress'[w].status = "learning"
                   /\ progress'[w].firstLearnedAt = now
             /\ w \notin DOMAIN progress => progress'[w].errorCount = 1
          \/ ~RecordLearnResult(w, "dont-know")]_vars

\* C7 witness: a word learned with dont-know as its first touch.
C7_Witness ==
    \E w \in DOMAIN progress :
        /\ progress[w] = [status |-> "learning", stage |-> 0,
                          nextReview |-> now + 5 * 60000, lastReview |-> now,
                          firstLearnedAt |-> now, errorCount |-> 1]
        /\ Includes(planState.todayMistakes, w)
        /\ now > ClockStart

\* C8: a correct test answer changes nothing; a wrong one lowers the stage
\* by one (not below 0), adds one error, sets lastReview = now, lists the
\* mistake and leaves status, nextReview, firstLearnedAt, todayLearnedCount
\* and every other record alone; a missing record starts from
\* {new, stage 0, errorCount 0}.
C8_TestFrame ==
    [][/\ \A w \in WordKeys :
          \/ UNCHANGED <<progress, planState>>
          \/ ~RecordTestResult(w, TRUE)
       /\ \A w \in DOMAIN progress' :
             \/ /\ progress'[w].stage = (IF Before(w).stage > 0
                                         THEN Before(w).stage - 1 ELSE 0)
                /\ progress'[w].errorCount = Before(w).errorCount + 1
                /\ progress'[w].lastReview = now
                /\ Includes(planState'.todayMistakes, w)
                /\ progress'[w].status = Before(w).status
                /\ progress'[w].nextReview = Before(w).nextReview
                /\ progress'[w].firstLearnedAt = Before(w).firstLearnedAt
                /\ planState'.todayLearnedCount = planState.todayLearnedCount
                /\ w \notin DOMAIN progress =>
                      /\ progress'[w].status = "new"
                      /\ progress'[w].stage = 0
                      /\ progress'[w].errorCount = 1
                /\ \A v \in DOMAIN progress \ {w} : progress'[v] = progress[v]
             \/ ~RecordTestResult(w, FALSE)]_vars

\* C8 witness: a learned record that a failed test took from stage 3 to 2
\* (its review is still scheduled by the stage-3 interval), and a record a
\* failed test created.
C8_Witness ==
    \E w, v \in DOMAIN progress :
        /\ progress[w].status = "learning"
        /\ progress[w].stage = 2
        /\ progress[w].nextReview = ClockStart + Interval(3) * MsPerMinute
        /\ progress[w].lastReview = now
        /\ now > ClockStart
        /\ progress[v] = [status |-> "new", stage |-> 0, nextReview |-> 0,
                          lastReview |-> now, firstLearnedAt |-> 0,
                          errorCount |-> 1]

\* C9: a review call on a word without record changes nothing and creates
\* no record.
C9_ReviewAbsentNoOp ==
    [][\A w \in WordKeys \ DOMAIN progress, r \in Results, m \in ReviewModes :
          \/ UNCHANGED <<progress, planState, plan, testHistory>>
          \/ ~RecordReviewResult(w, r, m)]_vars

\* C9 witness: one word learned and listed as a mistake, the other still
\* without record, so that a review call on it finds nothing.
C9_Witness ==
    \E w \in WordKeys \ DOMAIN progress :
        /\ DOMAIN progress # {}
        /\ planState.todayLearnedCount = 1
        /\ planState.todayMistakes # <<>>

\* What a reset leaves: a plan with another id created now, no progress, a
\* fresh day state for the day of now, no test history.
C10_ResetOutcome ==
    /\ plan' # NoPlan
    /\ plan # NoPlan => plan'.id # plan.id
    /\ plan'.createdAt = now
    /\ DOMAIN progress' = {}
    /\ planState' = [todayDate |-> DateString(now), todayLearnedCount |-> 0,
                     todayMistakes |-> <<>>]
    /\ testHistory' = <<>>

\* C10 as stated: savePlan with a book set that differs in membership from
\* the plan's (a book removed, added, or both), or without a plan, is a
\* reset.
C10_AsStated ==
    [][\/ C10_ResetOutcome
       \/ \A s \in SettingsChoices :
             \/ ~(plan = NoPlan \/ plan.selectedBooks # s.selectedBooks)
             \/ ~SavePlan(s)]_vars

\* C10 amended: savePlan with a book set that lacks a book of the plan's set
\* (with or without other books added), or without a plan, is a reset,
\* whatever the other settings are.
C10_ResetOnRemoval ==
    [][\/ C10_ResetOutcome
       \/ \A s \in SettingsChoices :
             \/ ~(plan = NoPlan \/ plan.selectedBooks \ s.selectedBooks # {})
             \/ ~SavePlan(s)]_vars

\* C10 witness: after a tick, a plan created now over another book than
\* before is alone in the state: progress, counters, mistakes and the saved
\* test history are gone.
C10_Witness ==
    /\ plan # NoPlan
    /\ now > ClockStart
    /\ plan.createdAt = now
    /\ plan.selectedBooks = {"b2"}
    /\ plan.id # SavedPlan.id
    /\ DOMAIN progress = {}
    /\ planState = FreshPlanState(now)
    /\ testHistory = <<>>

\* The fields savePlan's settings carry besides the book selection.
C11_Fields == {"dailyLimit", "planMode", "daysTarget", "learnOrder"}

\* What every savePlan call with the plan's own book set does: id and
\* createdAt stay, every field the settings carry is taken, and progress,
\* day state and test history are left alone.
C11_Frame(s) ==
    /\ plan'.id = plan.id
    /\ plan'.createdAt = plan.createdAt
    /\ plan'.selectedBooks = plan.selectedBooks
    /\ \A f \in C11_Fields \cap DOMAIN s : plan'[f] = s[f]
    /\ UNCHANGED <<progress, planState, testHistory>>

\* C11 as stated: savePlan with a book set equal in membership to the plan's
\* keeps id and createdAt, takes the new dailyLimit, planMode, daysTarget and
\* learnOrder (settings without daysTarget leave the plan without one), and
\* leaves progress, day state and test history unchanged.
C11_AsStated ==
    [][\A s \in SettingsChoices :
          \/ plan = NoPlan
          \/ plan.selectedBooks # s.selectedBooks
          \/ ~SavePlan(s)
          \/ /\ C11_Frame(s)
             /\ \A f \in C11_Fields : f \in DOMAIN plan' <=> f \in DOMAIN s]_vars

\* C11 amended: as stated, but a daysTarget the settings do not carry leaves
\* the plan's previous daysTarget in place.
C11_MergeInPlace ==
    [][\A s \in SettingsChoices :
          \/ plan = NoPlan
          \/ plan.selectedBooks # s.selectedBooks
          \/ ~SavePlan(s)
          \/ /\ C11_Frame(s)
             /\ DOMAIN plan' = DOMAIN plan \cup DOMAIN s
             /\ \A f \in DOMAIN plan \ DOMAIN s : plan'[f] = plan[f]]_vars

\* C11 witness: the saved plan, merged after a tick into days mode with
\* another limit and order, still has its id and createdAt, and the learned
\* word, the day's counter and mistake and the test history are still there.
C11_Witness ==
    /\ plan # NoPlan
    /\ now > ClockStart
    /\ plan.id = SavedPlan.id
    /\ plan.createdAt = ClockStart
    /\ plan.selectedBooks = Books
    /\ plan.planMode = "days"
    /\ plan.dailyLimit = 1
    /\ plan.learnOrder = "random"
    /\ \E w \in DOMAIN progress : progress[w].status = "learning"
    /\ planState.todayLearnedCount = 1
    /\ planState.todayMistakes # <<>>
    /\ testHistory = <<SavedTest>>

\* C12: with a plan, when the clock reaches another calendar day the rollover
\* check replaces the day state by {todayDate: the new day, count 0, no
\* mistakes} and leaves every progress record, the plan and the test history
\* unchanged; the check run again on the same day (by a later tick or by a
\* change of plan) finds todayDate equal to the day of now and changes
\* nothing.
C12_RolloverFrame ==
    [][/\ \/ /\ planState' = [todayDate |-> now' \div 86400000,
                                todayLearnedCount |-> 0,
                                todayMistakes |-> <<>>]
             /\ UNCHANGED <<progress, plan, testHistory>>
          \/ plan = NoPlan
          \/ planState.todayDate = now' \div 86400000
          \/ ~Tick
       /\ \/ UNCHANGED <<progress, plan, testHistory, planState>>
          \/ plan = NoPlan
          \/ planState.todayDate # now' \div 86400000
          \/ ~Tick
       /\ plan' # NoPlan => planState'.todayDate = now' \div 86400000
       /\ \A s \in SettingsChoices :
             \/ UNCHANGED planState
             \/ IsReset(plan, s)
             \/ ~SavePlan(s)]_vars

\* C12 witness: the day after the start, a fresh day state, while the word
\* that was learned with an error on the first day still has its record and
\* the plan and the test history are the saved ones.
C12_Witness ==
    /\ plan # NoPlan
    /\ plan.id = SavedPlan.id
    /\ plan.createdAt = ClockStart
    /\ DateString(now) = DateString(ClockStart) + 1
    /\ planState = [todayDate |-> DateString(now), todayLearnedCount |-> 0,
                    todayMistakes |-> <<>>]
    /\ \E w \in DOMAIN progress :
          progress[w] = [status |-> "learning", stage |-> 0,
                         nextReview |-> ClockStart + 5 * MsPerMinute,
                         lastReview |-> ClockStart,
                         firstLearnedAt |-> ClockStart, errorCount |-> 1]
    /\ testHistory = <<SavedTest>>

\* The word keys, ascending.
C13_Ascending == <<"apple", "banana">>

\* The pool words without record or with status new.
C13_Eligible ==
    {w \in WordKeys :
        /\ \E i \in 1..Len(allWords) :
              allWords[i].word = w /\ allWords[i].bookId \in plan.selectedBooks
        /\ w \notin DOMAIN progress \/ progress[w].status = "new"}

\* The first n eligible words, ascending.
C13_Expected(n) ==
    LET eligible == SelectSeq(C13_Ascending, LAMBDA w : w \in C13_Eligible)
    IN  SubSeq(eligible, 1, IF n < Len(eligible) THEN n ELSE Len(eligible))

\* C13: with learnOrder alphabetical getTodayTask returns exactly the first
\* max(0, dailyLimit - todayLearnedCount) words, ascending, of the pool words
\* without record or with status new; it returns the empty list when the
\* quota is used up or there is no plan, and never a word whose status is
\* learning or mastered.
C13_TodayTask ==
    /\ plan = NoPlan => getTodayTask = {<<>>}
    /\ plan # NoPlan /\ plan.learnOrder = "alphabetical" =>
          LET quota == plan.dailyLimit - planState.todayLearnedCount
          IN  /\ \E task \in getTodayTask :
                    /\ getTodayTask = {task}
                    /\ [i \in 1..Len(task) |-> task[i].word] =
                          C13_Expected(IF quota > 0 THEN quota ELSE 0)
              /\ quota <= 0 => getTodayTask = {<<>>}
    /\ \A task \in getTodayTask : \A i \in 1..Len(task) :
          \/ task[i].word \notin DOMAIN progress
          \/ progress[task[i].word].status \notin {"learning", "mastered"}

\* C13 witness: both words are eligible (the first of the catalog without
\* record, the other with a status-new record), the quota leaves room for
\* one, and the task is the alphabetically first word.
C13_Witness ==
    /\ plan # NoPlan
    /\ plan.learnOrder = "alphabetical"
    /\ plan.selectedBooks = Books
    /\ plan.dailyLimit - planState.todayLearnedCount = 1
    /\ DOMAIN progress = {"apple"}
    /\ progress["apple"].status = "new"
    /\ getTodayTask = {<<[word |-> "apple", bookId |-> "b2"]>>}

\* The pool words that have a record.
C14_PoolRecords ==
    {w \in DOMAIN progress :
        plan # NoPlan /\ \E i \in 1..Len(allWords) :
            allWords[i].word = w /\ allWords[i].bookId \in plan.selectedBooks}

\* (a) the due words: status not new and nextReview <= now.
C14_Due ==
    {w \in C14_PoolRecords :
        progress[w].status # "new" /\ progress[w].nextReview <= now}

\* (b) the words touched today: lastReview >= start of the calendar day.
C14_TouchedToday ==
    {w \in C14_PoolRecords :
        progress[w].lastReview >= (now \div 86400000) * 86400000}

\* The word keys of a returned list.
C14_Keys(task) == {task[i].word : i \in 1..Len(task)}

\* C14: getReviewTask('scientific') returns exactly the due words and the
\* words touched today, each once; every due word that was not touched
\* today is in the result.
C14_ScientificIsUnion ==
    LET task == getReviewTask("scientific")
    IN  /\ C14_Keys(task) = C14_Due \cup C14_TouchedToday
        /\ \A i, j \in 1..Len(task) : i # j => task[i].word # task[j].word
        /\ C14_Due \ C14_TouchedToday \subseteq C14_Keys(task)

\* C15: getReviewTask('today') returns exactly the words touched today; a
\* due word last touched before today is not in it, so the result is a
\* subset of getReviewTask('scientific').
C15_TodayIsTouchedToday ==
    LET task == getReviewTask("today")
    IN  /\ C14_Keys(task) = C14_TouchedToday
        /\ (C14_Due \ C14_TouchedToday) \cap C14_Keys(task) = {}
        /\ C14_Keys(task) \subseteq C14_Keys(getReviewTask("scientific"))

\* C16: every word of getMistakesList('today') is in getMistakesList('all'),
\* and every word any filter returns is a pool word that has a record with
\* errorCount > 0.
C16_MistakesLists ==
    /\ C14_Keys(getMistakesList("today")) \subseteq C14_Keys(getMistakesList("all"))
    /\ \A filter \in {"all", "today", "high-freq"} :
          \A w \in C14_Keys(getMistakesList(filter)) :
              /\ w \in C14_PoolRecords
              /\ progress[w].errorCount > 0

\* C16 witness: a word failed the day before and a word failed today: the
\* first is only in the list of all mistakes, the second in both.
C16_Witness ==
    /\ now > ClockStart
    /\ C14_Keys(getMistakesList("today")) = {"apple"}
    /\ C14_Keys(getMistakesList("all")) = {"apple", "banana"}
    /\ progress["apple"].lastReview = now
    /\ progress["banana"].lastReview = ClockStart

\* The sync requests for an identity that carry a username.
C17_Requests(id) == {r \in SyncRequests : r.id = id /\ r.username # ""}

\* C17: the sync upsert is a commutative, idempotent max-merge on the score
\* of an identity: two requests the service applies, with scores a and b,
\* leave the same stored score in either order, the largest of the score
\* stored before, a and b, which is max(a, b) unless a larger score was
\* stored; applying a request twice leaves the score of applying it once.
C17_MaxMerge ==
    \A id \in {"u1", "u2"} : \A ra, rb \in C17_Requests(id) :
        LET a1 == SyncTable(usersTable, ra)
            b1 == SyncTable(usersTable, rb)
            ab == SyncTable(a1, rb)
            ba == SyncTable(b1, ra)
            aa == SyncTable(a1, ra)
            larger == IF ra.score >= rb.score THEN ra.score ELSE rb.score
        IN  \/ SyncStatus(usersTable, ra) # 200
            \/ SyncStatus(usersTable, rb) # 200
            \/ /\ ab[id].score = ba[id].score
               /\ IF id \in DOMAIN usersTable /\ usersTable[id].score > larger
                  THEN ab[id].score = usersTable[id].score
                  ELSE ab[id].score = larger
               /\ aa[id].score = a1[id].score

\* C17 witness: an identity without row at the start has been synced with
\* scores 1 and 2 (in either order) and is stored with 2.
C17_Witness ==
    /\ {[id |-> "u2", score |-> 1], [id |-> "u2", score |-> 2]} \subseteq applied
    /\ "u2" \in DOMAIN usersTable
    /\ usersTable["u2"].score = 2

\* The largest number of a set.
C18_Largest(S) == CHOOSE m \in S : \A x \in S : m >= x

\* The score stored for the identity at the start, and the scores of the
\* requests applied for it since.
C18_Scores(id, log) ==
    (IF id = "u1" THEN {1} ELSE {}) \cup {e.score : e \in {x \in log : x.id = id}}

\* C18: in any interleaving of sync requests of any writers the stored score
\* of an identity never decreases and is, after any number of applied
\* requests, the largest of the score stored at the start and every
\* incoming score.
C18_MonotoneMax ==
    [][/\ \A id \in DOMAIN usersTable :
             /\ id \in DOMAIN usersTable'
             /\ usersTable'[id].score >= usersTable[id].score
       /\ \A id \in DOMAIN usersTable' :
             usersTable'[id].score = C18_Largest(C18_Scores(id, applied'))]_vars

\* C18 witness: the identity stored with 1 was synced with 2 and, later or
\* earlier, with the score 0 of an empty progress map, and is stored with 2.
C18_Witness ==
    /\ {e \in applied : e.id = "u1"} =
          {[id |-> "u1", score |-> 0], [id |-> "u1", score |-> 2]}
    /\ usersTable["u1"].score = 2

\* C19: a sync request with id and username for an identity that has a row
\* leaves the row with the incoming username, avatarId and avatarColor and
\* with score max(stored, incoming), also when the incoming username is
\* stored for another identity.
C19_LastWriteWins ==
    \A req \in SyncRequests :
        (req.id # "" /\ req.username # "" /\ req.id \in DOMAIN usersTable) =>
            SyncTable(usersTable, req)[req.id] =
                [username |-> req.username, avatarId |-> req.avatarId,
                 avatarColor |-> req.avatarColor,
                 score |-> IF usersTable[req.id].score >= req.score
                           THEN usersTable[req.id].score ELSE req.score]

\* The fallback ranking: no local identity is known to the page, so it is
\* the filler entries, by score descending.
C20_Fallback ==
    <<[id |-> "bot_1", username |-> "Alex", avatarId |-> "blue",
       avatarColor |-> "#219EBC", score |-> 120],
      [id |-> "bot_2", username |-> "Sarah", avatarId |-> "red",
       avatarColor |-> "#FF595E", score |-> 85],
      [id |-> "bot_3", username |-> "Tom", avatarId |-> "green",
       avatarColor |-> "#8AC926", score |-> 45],
      [id |-> "bot_4", username |-> "Lily", avatarId |-> "yellow",
       avatarColor |-> "#FFCA3A", score |-> 30]>>

\* The offline state: the fallback ranking is shown, loading is over.
C20_Offline == [leaderboard |-> C20_Fallback, loading |-> FALSE, isOffline |-> TRUE]

\* C20 as stated: a load whose sync failed, whose fetch failed or whose
\* fetch returned an empty collection ends in the offline state showing the
\* fallback ranking.
C20_AsStated ==
    [][\A l \in LoadIds :
          \/ ~FinishLoad(l)
          \/ loads[l].syncOk /\ loads[l].fetchOk /\ loads[l].data # <<>>
          \/ board' = C20_Offline]_vars

\* C20 amended: a load whose fetch failed or returned an empty collection
\* ends in the offline state showing the fallback ranking; a failed sync
\* does not end the load and does not reach the page: the load goes on to
\* the fetch and, when that returns entries, ends online showing them.
C20_FetchDecides ==
    [][\A l \in LoadIds :
          /\ \/ ~FinishLoad(l)
             \/ board' = IF loads[l].fetchOk /\ loads[l].data # <<>>
                         THEN [leaderboard |-> loads[l].data, loading |-> FALSE,
                               isOffline |-> FALSE]
                         ELSE C20_Offline
          /\ \A wire \in WireOutcomes :
                \/ ~SettleSync(l, wire)
                \/ loads'[l].pc = "fetch" /\ UNCHANGED board]_vars

\* C20 witness: the user's score reached the service, the fetch failed or
\* was empty, and the page is offline with the fallback ranking.
C20_Witness ==
    /\ user # NoUser
    /\ user.id \in DOMAIN usersTable
    /\ \A l \in LoadIds : loads[l].pc \in {"idle", "done"}
    /\ board = C20_Offline

\* The sync request of user u: its identity and its local score.
C21_Request(u) ==
    [id |-> u.id, username |-> u.username, avatarId |-> u.avatarId,
     avatarColor |-> u.avatarColor, score |-> getLocalScore(u.id)]

\* C21: the fallback ranking is never written back.  A sync request is
\* sent only when a loadData call starts with an authenticated user, and it
\* is that user's identity with that user's local score; the service's
\* table changes only by handling such a request; the step that puts the
\* fallback ranking on the page sends no request and leaves the table as it
\* is, so no filler entry reaches the service.
C21_NoWriteBack ==
    [][/\ \A l \in LoadIds :
             loads[l].pc # "sync" /\ loads'[l].pc = "sync"
                => /\ loads[l].pc = "idle"
                   /\ user' # NoUser
                   /\ loads'[l].sent = C21_Request(user')
       /\ usersTable' # usersTable
             => \E l \in LoadIds :
                   /\ loads[l].pc = "sync"
                   /\ usersTable' = SyncTable(usersTable, loads[l].sent)
       /\ \A l \in LoadIds :
             loads[l].pc = "render" /\ loads'[l].pc = "done" /\ board'.isOffline
                => /\ board'.leaderboard = FallbackRanking
                   /\ usersTable' = usersTable
                   /\ applied' = applied
                   /\ \A k \in LoadIds : loads'[k].pc = "sync" => loads[k].pc = "sync"
       /\ \A i \in DOMAIN usersTable' :
             \A k \in 1..Len(bots) : i # bots[k].id]_vars

\* C21 witness: the user's score was synced, and the page shows the
\* fallback ranking.
C21_Witness ==
    /\ \E r \in applied : r.id = TheUser.id
    /\ board.isOffline
    /\ board.leaderboard = FallbackRanking

\* The loadData calls made so far.
C22_Started == {l \in LoadIds : loads[l].pc # "idle"}

\* C22: when the loads made so far have all settled, the page shows the
\* leaderboard and the offline flag that the load started last produced,
\* whatever the order in which the loads resolved.
C22_LatestLoadShown ==
    \A l \in C22_Started :
        (\A k \in C22_Started : k <= l /\ loads[k].pc = "done")
            => /\ board.leaderboard = loads[l].leaderboard
               /\ board.isOffline = loads[l].isOffline

\* C23: a change of identity is a hard reset.  The step that makes u the
\* user leaves under u's keys what was there for u (the plan, the progress
\* map and the test history as the load effect reads them; the day state
\* as stored or a fresh one), and leaves in memory the plan, progress and
\* test history stored for u; no step writes under the keys of an identity
\* that is not the user.
C23_HardReset ==
    [][/\ user' = NoUser \/ user' = user
          \/ LET before == storage[user'.id]
                 after == storage'[user'.id]
             IN  /\ LoadPlan(after) = LoadPlan(before)
                 /\ LoadProgress(after) = LoadProgress(before)
                 /\ LoadHistory(after) = LoadHistory(before)
                 /\ after.state \subseteq before.state \cup {FreshPlanState(now)}
                 /\ plan' = LoadPlan(before)
                 /\ progress' = LoadProgress(before)
                 /\ testHistory' = LoadHistory(before)
       /\ \A i \in StoreIds :
             storage'[i] # storage[i] => user' # NoUser /\ user'.id = i]_vars

\* C24: a login whose load effect finds a plan and a day state under the
\* user's keys leaves a fresh day state of today (day of now, count 0, no
\* mistakes) when the stored todayDate is not the day of now, and the
\* stored day state as it is when the dates match; the progress map in
\* memory is the stored one.
C24_LoadDayState ==
    [][\A u \in Users :
          LET slice == storage[u.id] IN
          \/ slice.plan = {} \/ slice.state = {} \/ slice.progress = {}
          \/ ~Login(u)
          \/ /\ \A s \in slice.state :
                   planState' = IF s.todayDate # DateString(now)
                                THEN [todayDate |-> DateString(now),
                                      todayLearnedCount |-> 0,
                                      todayMistakes |-> <<>>]
                                ELSE s
             /\ slice.progress = {progress'}]_vars

\* C24 witness: the admin logged in after the session's user had learned a
\* word on the second day; the load effect found the admin's plan, the
\* progress map with the word learned on the first day, and a day state,
\* and left the day state of the second day.
C24_Witness ==
    /\ user = ADMIN_USER
    /\ plan = AdminPlan
    /\ {progress} = AdminSlice.progress
    /\ planState = FreshPlanState(now)
    /\ DateString(now) # DateString(ClockStart)
    /\ \E pMap \in storage[TheUser.id].progress :
          \E w \in DOMAIN pMap :
             DateString(pMap[w].firstLearnedAt) = DateString(now)

\* The words of a list of catalog entries.
C25_Words(task) == [i \in 1..Len(task) |-> task[i].word]

\* The pool words without record or with status new: what the plan's books
\* and the progress map make eligible.
C25_Eligible ==
    {w \in WordKeys :
        /\ \E i \in 1..Len(allWords) :
              allWords[i].word = w /\ allWords[i].bookId \in plan.selectedBooks
        /\ w \notin DOMAIN progress \/ progress[w].status = "new"}

\* The lists of n different eligible words, in any order.
C25_Picks(n) ==
    {p \in [1..n -> C25_Eligible] : \A i, j \in 1..n : i # j => p[i] # p[j]}

\* C25: with a plan, fetchRawNewWords(count) returns min(count, number of
\* eligible words) eligible words, whatever dailyLimit and todayLearnedCount
\* are: under learnOrder alphabetical the first ones in ascending order,
\* under random any of them in any order; and under alphabetical
\* getTodayTask() is fetchRawNewWords(max(0, dailyLimit - todayLearnedCount)).
C25_RawNewWords ==
    plan # NoPlan =>
       /\ \A count \in Counts :
             LET n == IF count < Cardinality(C25_Eligible)
                      THEN count ELSE Cardinality(C25_Eligible)
                 lists == {C25_Words(task) : task \in fetchRawNewWords(count)}
             IN  /\ \A task \in fetchRawNewWords(count) : Len(task) = n
                 /\ plan.learnOrder = "alphabetical" =>
                       lists = {p \in C25_Picks(n) :
                                  \A i \in 1..n : \A w \in C25_Eligible :
                                      localeCompare(w, p[i]) < 0
                                         => \E j \in 1..(i - 1) : p[j] = w}
                 /\ plan.learnOrder = "random" => lists = C25_Picks(n)
       /\ plan.learnOrder = "alphabetical" =>
             LET quota == plan.dailyLimit - planState.todayLearnedCount
             IN  getTodayTask = fetchRawNewWords(IF quota > 0 THEN quota ELSE 0)

\* C25 witness: the day's quota is used up, getTodayTask returns nothing,
\* and fetchRawNewWords still returns the word that is left.
C25_Witness ==
    /\ plan # NoPlan
    /\ plan.learnOrder = "alphabetical"
    /\ plan.selectedBooks = Books
    /\ planState.todayLearnedCount >= plan.dailyLimit
    /\ getTodayTask = {<<>>}
    /\ fetchRawNewWords(2) = {<<[word |-> "apple", bookId |-> "b2"]>>}

\* The words of the plan's pool.
C26_Pool ==
    {w \in WordKeys :
        \E i \in 1..Len(allWords) :
           allWords[i].word = w /\ allWords[i].bookId \in plan.selectedBooks}

\* C26: with a plan, stats.remaining is totalWords - learnedUnique, where
\* totalWords is the size of the pool and learnedUnique lies between 0 and
\* totalWords, so remaining is not negative; stats.isFinished holds exactly
\* when every word of the pool has a record whose status is not new.
C26_Remaining ==
    plan # NoPlan =>
       /\ stats.totalWords = Cardinality(C26_Pool)
       /\ stats.remaining = stats.totalWords - stats.learnedUnique
       /\ 0 <= stats.learnedUnique
       /\ stats.learnedUnique <= stats.totalWords
       /\ stats.remaining >= 0
       /\ stats.isFinished <=>
             \A w \in C26_Pool : w \in DOMAIN progress /\ progress[w].status # "new"

\* C26 witness: the pool is one book, its word is learned and so is a word
\* outside the pool; the plan is finished.
C26_Witness ==
    /\ plan # NoPlan
    /\ plan.selectedBooks = {"b1"}
    /\ \A w \in WordKeys : w \in DOMAIN progress /\ progress[w].status # "new"
    /\ stats.isFinished
    /\ stats.learnedUnique = 1

\* The size of the plan's pool.
C27_TotalWords ==
    Cardinality({i \in 1..Len(allWords) : allWords[i].bookId \in plan.selectedBooks})

\* ceil(totalWords / max(dailyLimit, 1)): the least q with
\* q * max(dailyLimit, 1) >= totalWords.
C27_Quotient ==
    LET d == IF plan.dailyLimit > 1 THEN plan.dailyLimit ELSE 1
    IN  CHOOSE q \in 0..C27_TotalWords :
           q * d >= C27_TotalWords /\ (q = 0 \/ (q - 1) * d < C27_TotalWords)

\* C27 as stated: stats.daysTarget is the plan's daysTarget in days mode and
\* ceil(totalWords / max(dailyLimit, 1)) otherwise, for every pool size and
\* daily limit.
C27_AsStated ==
    plan # NoPlan =>
       stats.daysTarget = IF plan.planMode = "days"
                          THEN plan.daysTarget
                          ELSE C27_Quotient

\* C27 amended: as stated, except that in count mode an empty pool, for
\* which the quotient is 0, gives 1.
C27_DaysTarget ==
    plan # NoPlan =>
       stats.daysTarget = IF plan.planMode = "days" THEN plan.daysTarget
                          ELSE IF C27_TotalWords = 0 THEN 1
                          ELSE C27_Quotient

\* C27 witness: a count-mode plan with a daily limit of 0 over both books;
\* the target is one day per word.
C27_Witness ==
    /\ plan # NoPlan
    /\ plan.planMode = "count"
    /\ plan.dailyLimit = 0
    /\ plan.selectedBooks = Books
    /\ stats.daysTarget = Len(allWords)

\* The word is in a list that getTodayTask or fetchRawNewWords can return.
C28_Listed(w) ==
    \/ \E task \in getTodayTask : \E i \in 1..Len(task) : task[i].word = w
    \/ \E count \in Counts : \E task \in fetchRawNewWords(count) :
          \E i \in 1..Len(task) : task[i].word = w

\* A savePlan call that resets the plan.
C28_Reset == \E settings \in TaskSettings : IsReset(plan, settings) /\ SavePlan(settings)

\* The word has a record that has left status new.
C28_Learned(w) == w \in DOMAIN progress /\ progress[w].status # "new"

\* C28: a recordLearnResult call on a word, with either answer, leaves it a
\* record that has left status new; such a record stays such over every
\* learn, review and test call, day rollover and savePlan call that is not
\* a reset; and a word with such a record is in no result of getTodayTask
\* or fetchRawNewWords.
C28_LearnedStaysOut ==
    /\ [][\A w \in WordKeys :
             /\ (\E result \in Results : RecordLearnResult(w, result))
                   => C28_Learned(w)'
             /\ C28_Learned(w) => C28_Learned(w)' \/ C28_Reset]_vars
    /\ [](\A w \in WordKeys : C28_Learned(w) => ~C28_Listed(w))

\* C28 witness: banana was learned on the first day; on the second day,
\* under a plan extended to both books with room in the quota, the tasks
\* list the other word only.
C28_Witness ==
    /\ plan # NoPlan
    /\ plan.selectedBooks = Books
    /\ "banana" \in DOMAIN progress
    /\ progress["banana"].status = "learning"
    /\ DateString(progress["banana"].firstLearnedAt) # DateString(now)
    /\ progress["banana"].errorCount > 0
    /\ planState.todayLearnedCount = 0
    /\ C28_Listed("apple")
    /\ ~C28_Listed("banana")

\* The words whose record has left status new and was first learned on the
\* day of the day state.
C29_LearnedToday ==
    {w \in DOMAIN progress :
        /\ progress[w].status # "new"
        /\ DateString(progress[w].firstLearnedAt) = planState.todayDate}

\* C29: with a plan, todayLearnedCount is the number of records that have
\* left status new and whose firstLearnedAt is on the day todayDate, which
\* is the day of now.
C29_CountIsLearnedToday ==
    plan # NoPlan =>
       /\ planState.todayDate = DateString(now)
       /\ planState.todayLearnedCount = Cardinality(C29_LearnedToday)

\* C29 witness: one word was learned on the first day and one on the
\* second; the count of the second day is 1.
C29_Witness ==
    /\ plan # NoPlan
    /\ \A w \in WordKeys : w \in DOMAIN progress /\ progress[w].status # "new"
    /\ \E w \in WordKeys : DateString(progress[w].firstLearnedAt) # DateString(now)
    /\ planState.todayLearnedCount = 1

\* The word is in a list that getTodayTask can return.
C30_InTask(w) ==
    \E task \in getTodayTask : \E i \in 1..Len(task) : task[i].word = w

\* A recordLearnResult call on a word that getTodayTask does not list.
C30_OutOfTask ==
    \E w \in WordKeys, result \in Results :
       ~C30_InTask(w) /\ RecordLearnResult(w, result)

\* C30: while todayLearnedCount is within dailyLimit, it stays within it
\* over every step that leaves dailyLimit as it is, unless the step is a
\* recordLearnResult call on a word that getTodayTask, evaluated before the
\* call, does not list; recordLearnResult itself counts every word without
\* record or with status new, whatever the quota.
C30_QuotaKept ==
    [][/\ \/ plan = NoPlan
          \/ planState.todayLearnedCount > plan.dailyLimit
          \/ plan'.dailyLimit # plan.dailyLimit
          \/ planState'.todayLearnedCount <= plan.dailyLimit
          \/ C30_OutOfTask
       /\ \A w \in WordKeys, result \in Results :
             IsNewWord(w) /\ RecordLearnResult(w, result)
                => planState'.todayLearnedCount = planState.todayLearnedCount + 1]_vars

\* C30 witness: the daily limit of 1 is reached by learning the word of the
\* task; the other word is still unlearned and getTodayTask lists nothing.
C30_Witness ==
    /\ plan # NoPlan
    /\ plan.selectedBooks = Books
    /\ plan.learnOrder = "alphabetical"
    /\ plan.dailyLimit = 1
    /\ planState.todayLearnedCount = 1
    /\ "apple" \in DOMAIN progress
    /\ progress["apple"].status = "learning"
    /\ DateString(progress["apple"].firstLearnedAt) = planState.todayDate
    /\ IsNewWord("banana")
    /\ getTodayTask = {<<>>}

\* The record's next review is its last review plus the interval of its
\* stage.
C31_Consistent(r) == r.nextReview = r.lastReview + Interval(r.stage) * MsPerMinute

\* C31 as stated: every record with a status other than new has
\* nextReview = lastReview + INTERVAL[stage] minutes.
C31_AsStated ==
    \A w \in DOMAIN progress :
       progress[w].status # "new" => C31_Consistent(progress[w])

\* C31: a step leaves a record with a status other than new with
\* nextReview = lastReview + INTERVAL[stage] minutes, unless it leaves the
\* record as it was or is a failed test on the word: learn and review calls
\* establish the schedule of the stage, a failed test lowers the stage and
\* sets lastReview without rescheduling.
C31_ScheduleFollowsStage ==
    [][\A w \in WordKeys :
          \/ w \notin DOMAIN progress'
          \/ progress'[w].status = "new"
          \/ C31_Consistent(progress'[w])
          \/ w \in DOMAIN progress /\ progress'[w] = progress[w]
          \/ RecordTestResult(w, FALSE)]_vars

\* C31 witness: apple has been learned and has then failed a test, which
\* left the next review of stage 1 on a record at stage 0; banana, learned
\* after it, has the schedule of its stage.
C31_Witness ==
    /\ "apple" \in DOMAIN progress
    /\ progress["apple"].status = "learning"
    /\ progress["apple"].stage = 0
    /\ progress["apple"].errorCount = 1
    /\ progress["apple"].nextReview = progress["apple"].firstLearnedAt + Interval(1) * MsPerMinute
    /\ ~C31_Consistent(progress["apple"])
    /\ "banana" \in DOMAIN progress
    /\ progress["banana"].status = "learning"
    /\ progress["banana"].stage = 1
    /\ C31_Consistent(progress["banana"])

\* C32: todayMistakes holds no word twice, and every word in it has a
\* progress record with errorCount > 0.
C32_MistakesHaveErrors ==
    /\ \A i, j \in 1..Len(planState.todayMistakes) :
          i # j => planState.todayMistakes[i] # planState.todayMistakes[j]
    /\ \A i \in 1..Len(planState.todayMistakes) :
          /\ planState.todayMistakes[i] \in DOMAIN progress
          /\ progress[planState.todayMistakes[i]].errorCount > 0

\* The loadData calls whose fetch has resolved after a sync request of the
\* call was sent.
C33_Fetched ==
    {l \in LoadIds : loads[l].pc = "render" /\ loads[l].sent # NoRequest}

\* The service has accepted the sync request of the call, whether or not
\* the response arrived.
C33_Accepted(l) == loads[l].accepted

\* C33: a loadData call fetches only after its sync request has settled:
\* the fetch resolves in a step from the state the settled sync left, and
\* when the sync was accepted and the fetch has succeeded, every entry of
\* the fetched list with the user's id has a score at least the score the
\* call sent.
C33_FetchAfterSync ==
    /\ [](\A l \in C33_Fetched :
            C33_Accepted(l) /\ loads[l].fetchOk
               => \A i \in 1..Len(loads[l].data) :
                     loads[l].data[i].id = loads[l].sent.id
                        => loads[l].data[i].score >= loads[l].sent.score)
    /\ [][\A l \in LoadIds :
            /\ loads'[l].pc = "render" /\ loads[l].pc # "render"
                  => loads[l].pc = "fetch"
            /\ loads'[l].pc = "fetch" /\ loads[l].pc # "fetch"
                  /\ loads'[l].sent # NoRequest
                  => loads[l].pc = "sync" /\ loads[l].sent = loads'[l].sent]_vars

\* C33 witness: the call sent a score of 1 or more, the service accepted it
\* and has also accepted the score 0 from another device; the fetched list
\* has the user's entry.
C33_Witness ==
    \E l \in C33_Fetched :
       /\ loads[l].sent.score >= 1
       /\ C33_Accepted(l)
       /\ [id |-> loads[l].sent.id, score |-> 0] \in applied
       /\ loads[l].fetchOk
       /\ \E i \in 1..Len(loads[l].data) : loads[l].data[i].id = loads[l].sent.id

=============================================================================
